---------------------------- MODULE Spec2Model ----------------------------
(***************************************************************************)
(* A model of rshell: the scanner (src/lang/scanner.rs), the parser        *)
(* (src/lang/parser/mod.rs), the builtin dispatcher (src/lang/builtin.rs), *)
(* Command::interpret (src/command.rs) with the builtins it calls          *)
(* (src/builtin.rs) and the read-eval loop (src/main.rs).                  *)
(*                                                                         *)
(* Text is modelled by TLA+ strings; a character is a string of length 1.  *)
(* Rust indices are 0-based, TLA+ sequences 1-based: source[i] in the code *)
(* is CharAt(source, i + 1) here.                                          *)
(***************************************************************************)
EXTENDS Integers, Sequences, FiniteSets, TLC

VARIABLES
    env,                 \* the process environment: name -> value, for the set variables
    ALIASES,             \* lib.rs ALIASES: alias name -> replacement text
    PREVIOUS_EXIT_CODE,  \* lib.rs PREVIOUS_EXIT_CODE
    scanner,             \* a Scanner (scanner.rs) and how far scan_tokens has come
    parser,              \* a Parser (parser/mod.rs) and how far parse_tokens has come
    call,                \* the last call of the builtin dispatcher, with what the OS answered
    cwd,                 \* the current working directory of the process
    terminated,          \* the exit status of the process once it has ended, else Running
    shell,               \* the read-eval loop of main.rs and the line it is running
    expand               \* one line taken through the scanner and then the parser

vars == <<env, ALIASES, PREVIOUS_EXIT_CODE, scanner, parser, call, cwd, terminated,
          shell, expand>>

----------------------------------------------------------------------------
(* Bounds of the model. *)

\* Scanner inputs: every string over Alphabet of at most MaxLen characters.
MaxLen == 3

\* Parser inputs: every token stream made of at most MaxSegments segments.
MaxSegments == 3

\* Dispatcher inputs: every argument vector of at most MaxArgs words of ArgWords.
MaxArgs == 3

\* Shell inputs: every AND-chain of at most MaxChain commands of ShellCommands.
MaxChain == 2

\* Expansion inputs: every variable name over NameAlphabet of at most MaxName characters.
MaxName == 2

\* Most words of a line of SpecWords.
MaxWords == 2

\* Parser inputs: also every AND-chain of at most MaxCommands commands of ChainPieces.
MaxCommands == 3

\* Startup scripts: every script of at most MaxScript lines of StartupLines.
MaxScript == 3

\* Parser inputs of SpecParseFair: every token stream of at most MaxFairSegments segments.
MaxFairSegments == 2

\* Tasks that run operations on the two locks at the same time.
MaxTasks == 2

----------------------------------------------------------------------------
(* Text helpers. *)

CharAt(s, i) == SubSeq(s, i, i)

\* The character peek() answers at the end of the input, '\0'.
NUL == "<NUL>"

Letters == {"a", "b", "c", "d", "e", "f", "g", "h", "i", "j", "k", "l", "m",
            "n", "o", "p", "q", "r", "s", "t", "u", "v", "w", "x", "y", "z",
            "A", "B", "C", "D", "E", "F", "G", "H", "I", "J", "K", "L", "M",
            "N", "O", "P", "Q", "R", "S", "T", "U", "V", "W", "X", "Y", "Z"}

Digits == {"0", "1", "2", "3", "4", "5", "6", "7", "8", "9"}

\* char::is_alphanumeric, on the characters the model uses.
is_alphanumeric(c) == c \in Letters \cup Digits

Digit(d) == SubSeq("0123456789", d + 1, d + 1)

RECURSIVE NatToString(_)
NatToString(n) == IF n < 10 THEN Digit(n) ELSE NatToString(n \div 10) \o Digit(n % 10)

\* i32::to_string
to_string(n) == IF n < 0 THEN "-" \o NatToString(-n) ELSE NatToString(n)

RECURSIVE Contains(_, _)
Contains(s, c) == s # "" /\ (CharAt(s, 1) = c \/ Contains(SubSeq(s, 2, Len(s)), c))

\* The index of the first c in s, 0 when there is none.
RECURSIVE Find(_, _, _)
Find(s, c, i) == IF i > Len(s) THEN 0 ELSE IF CharAt(s, i) = c THEN i ELSE Find(s, c, i + 1)

\* Every string over alphabet of at most n characters.
RECURSIVE StringsUpTo(_, _)
StringsUpTo(alphabet, n) ==
    IF n = 0 THEN {""}
    ELSE LET shorter == StringsUpTo(alphabet, n - 1)
         IN  shorter \cup {s \o c : s \in {t \in shorter : Len(t) = n - 1}, c \in alphabet}

----------------------------------------------------------------------------
(* The environment and the alias registry. *)

None == [some |-> FALSE]

Some(v) == [some |-> TRUE, value |-> v]

\* std::env::var(name): the value of a set variable.
env_var(name) == IF name \in DOMAIN env THEN Some(env[name]) ELSE None

unwrap_or(opt, default) == IF opt.some THEN opt.value ELSE default

\* Aliases::get
Aliases_get(key) == IF key \in DOMAIN ALIASES THEN Some(ALIASES[key]) ELSE None

\* Aliases::set: HashMap::insert
Aliases_set(aliases, key, value) ==
    [k \in DOMAIN aliases \cup {key} |-> IF k = key THEN value ELSE aliases[k]]

NoAliases == [k \in {} |-> ""]

----------------------------------------------------------------------------
(* Tokens. *)

TokenType == {"AndAnd", "And", "Part", "DollarSign", "Pipe", "OrOr", "Eof",
              "Semicolon", "LeftBrace", "RightBrace", "ColonDash"}

\* Token::new
Token(type, lexeme, location) == [type |-> type, lexeme |-> lexeme, location |-> location]

----------------------------------------------------------------------------
(* The scanner. A Scanner is [source, start, current, tokens, status];      *)
(* status is "scanning" until scan_tokens returns ("done") or a read of     *)
(* the source buffer is out of bounds ("panic").                            *)

\* Scanner::new
Scanner_new(source) ==
    [source |-> source, start |-> 0, current |-> 0, tokens |-> <<>>, status |-> "scanning"]

Scanner_is_at_end(s) == s.current >= Len(s.source)

\* The character Scanner::advance returns; the read is out of bounds at the end.
advanced_char(s) == IF s.current < Len(s.source) THEN CharAt(s.source, s.current + 1) ELSE NUL

\* Scanner::advance: current += 1, then source[current - 1]
Scanner_advance(s) ==
    [s EXCEPT !.current = @ + 1,
              !.status = IF s.current < Len(s.source) THEN @ ELSE "panic"]

Scanner_peek(s) == IF Scanner_is_at_end(s) THEN NUL ELSE CharAt(s.source, s.current + 1)

is_part(c) == is_alphanumeric(c) \/ c \in {"=", "'", "\"", ".", "/", "-"}

\* Scanner::match
Scanner_match(s, expected) ==
    ~Scanner_is_at_end(s) /\ CharAt(s.source, s.current + 1) = expected

add_token(s, type) ==
    [s EXCEPT !.tokens = Append(@, Token(type, SubSeq(s.source, s.start + 1, s.current),
                                         s.current))]

add_token_with_lexeme(s, type, lexeme) ==
    [s EXCEPT !.tokens = Append(@, Token(type, lexeme, s.current))]

Quotes == {"'", "\""}

\* From<char> for QuoteType
QuoteType_from(c) == IF c = "'" THEN "Single" ELSE IF c = "\"" THEN "Double" ELSE "Any"

\* From<QuoteType> for char
char_from(quote_type) == IF quote_type = "Single" THEN "'" ELSE "\""

\* The loop of part(QuoteType::Any); quote_type is "None" until a quote is met.
RECURSIVE part_any_loop(_, _, _)
part_any_loop(s, inside_quotes, quote_type) ==
    LET c == Scanner_peek(s) IN
    IF is_part(c) \/ (inside_quotes /\ c = " ")
    THEN LET s1 == Scanner_advance(s)
             c1 == Scanner_peek(s1)
         IN  IF quote_type # "None"
             THEN part_any_loop(s1, c1 = char_from(quote_type) \/ inside_quotes, quote_type)
             ELSE IF c1 \in Quotes \/ inside_quotes
                  THEN part_any_loop(s1, TRUE, QuoteType_from(c1))
                  ELSE part_any_loop(s1, FALSE, quote_type)
    ELSE s

\* The loop of part(QuoteType::Single) and part(QuoteType::Double).
RECURSIVE part_quote_loop(_, _, _)
part_quote_loop(s, inside_quotes, quote_char) ==
    LET c == Scanner_peek(s) IN
    IF is_part(c) \/ (inside_quotes /\ c = " ")
    THEN LET s1 == Scanner_advance(s)
             c1 == Scanner_peek(s1)
         IN  part_quote_loop(s1, c1 = quote_char \/ inside_quotes, quote_char)
    ELSE s

\* Scanner::part
Scanner_part(s, quote_type) ==
    add_token(IF quote_type = "Any"
              THEN part_any_loop(s, FALSE, "None")
              ELSE part_quote_loop(s, FALSE, char_from(quote_type)),
              "Part")

\* The loop of part_return_lexeme.
RECURSIVE part_return_loop(_, _)
part_return_loop(s, inside_quotes) ==
    LET c == Scanner_peek(s) IN
    IF is_part(c) \/ (inside_quotes /\ c = " ")
    THEN LET s1 == Scanner_advance(s)
             c1 == Scanner_peek(s1)
         IN  part_return_loop(s1, c1 \in Quotes \/ inside_quotes)
    ELSE s

\* Scanner::part_return_lexeme: the scanner after the word, and the word's text
\* or, when the text is an alias, its replacement.
part_return_lexeme(s, start) ==
    LET s1 == part_return_loop(s, FALSE)
        text == SubSeq(s1.source, start + 1, s1.current)
    IN  [scanner |-> s1, lexeme |-> unwrap_or(Aliases_get(text), text)]

\* The '~' arm of scan_token, entered after the '~' was read.
scan_tilde(s) ==
    LET home == unwrap_or(env_var("HOME"), "")
        s1 == Scanner_advance(s)
    IN  IF s1.status = "panic" THEN s1
        ELSE IF is_part(advanced_char(s))
             THEN LET r == part_return_lexeme(s1, s.start + 1)
                  IN  add_token_with_lexeme(r.scanner, "Part", home \o r.lexeme)
             ELSE add_token_with_lexeme(s1, "Part", home)

\* Scanner::scan_token
scan_token(s) ==
    LET c == advanced_char(s)
        s1 == Scanner_advance(s)
        s2 == [s1 EXCEPT !.current = @ + 1]
    IN  CASE c = "&" -> IF Scanner_match(s1, "&") THEN add_token(s2, "AndAnd")
                        ELSE add_token(s1, "And")
          [] c = "|" -> IF Scanner_match(s1, "|") THEN add_token(s2, "OrOr")
                        ELSE add_token(s1, "Pipe")
          [] c = "$" -> IF Scanner_match(s1, "?")
                        THEN add_token_with_lexeme(s2, "Part", to_string(PREVIOUS_EXIT_CODE))
                        ELSE add_token(s1, "DollarSign")
          [] c = "{" -> add_token(s1, "LeftBrace")
          [] c = "}" -> add_token(s1, "RightBrace")
          [] c \in {" ", "\n", "\t", "\r"} -> s1
          [] c = ":" -> IF Scanner_match(s1, "-") THEN add_token(s2, "ColonDash") ELSE s1
          [] c = "~" -> scan_tilde(s1)
          [] c = ";" -> add_token(s1, "Semicolon")
          [] c = "'" -> Scanner_part(s1, "Single")
          [] c = "\"" -> Scanner_part(s1, "Double")
          [] OTHER -> Scanner_part(s1, "Any")

\* One iteration of the loop of scan_tokens.
scan_tokens_iteration(s) == scan_token([s EXCEPT !.start = s.current])

\* scan_tokens returning its tokens as they are, no Eof pushed.
scan_tokens_finish_without_eof(s) == [s EXCEPT !.status = "done"]

\* The end of scan_tokens: the Eof token (TokenType::default()) is pushed.
scan_tokens_finish(s) ==
    [s EXCEPT !.tokens = Append(@, Token("Eof", "", s.current)), !.status = "done"]

\* One step of scan_tokens.
scan_tokens_step(s) ==
    IF Scanner_is_at_end(s) THEN scan_tokens_finish(s) ELSE scan_tokens_iteration(s)

\* Scanner::scan_tokens, from a new or a running scanner to the end. (Binding
\* the scanner after a step to t makes TLC compute it once.)
RECURSIVE scan_tokens(_)
scan_tokens(s) ==
    IF s.status # "scanning" THEN s
    ELSE CHOOSE end \in {scan_tokens(t) : t \in {scan_tokens_step(s)}} : TRUE

----------------------------------------------------------------------------
(* Commands and parse errors. *)

\* struct Command
Command(keyword, args) == [keyword |-> keyword, args |-> args]

\* ErrorKind::UnexpectedToken(found, preceding, expected)
UnexpectedToken(found, preceding, expected) ==
    [kind |-> "UnexpectedToken", found |-> found, preceding |-> preceding,
     expected |-> expected]

\* ErrorKind::RequiredTokenNotFound(found, preceding, expected)
RequiredTokenNotFound(found, preceding, expected) ==
    [kind |-> "RequiredTokenNotFound", found |-> found, preceding |-> preceding,
     expected |-> expected]

\* A variant of ErrorKind::code that answers 1 for every kind.
ErrorKind_code_always_one(error) == 1

\* ErrorKind::code
ErrorKind_code(error) ==
    CASE error.kind = "UnexpectedToken" -> 1
      [] error.kind = "RequiredTokenNotFound" -> 2

----------------------------------------------------------------------------
(* The parser. A Parser is [tokens, current, frames, status, commands,      *)
(* error]: frames holds first_command and commands of every parse_tokens    *)
(* call that has not returned, the innermost last. status is "new" before   *)
(* parse_tokens is called, "parsing" while it runs, then "ok" (commands is  *)
(* the list returned), "err" (error is the ParseError returned) or "panic". *)

\* Parser::new
Parser_new(tokens) ==
    [tokens |-> tokens, current |-> 0, frames |-> <<>>, status |-> "new",
     commands |-> <<>>, error |-> None]

Parser_peek(p) == p.tokens[p.current + 1]

Parser_peek_back(p) == p.tokens[p.current]

Parser_peek_next(p) == p.tokens[p.current + 2]

Parser_previous(p) == p.tokens[p.current]

Parser_is_at_end(p) == Parser_peek(p).type = "Eof"

Parser_advance(p) == IF Parser_is_at_end(p) THEN p ELSE [p EXCEPT !.current = @ + 1]

Parser_check(p, type) == ~Parser_is_at_end(p) /\ Parser_peek(p).type = type

Parser_check_next(p, type) == ~Parser_is_at_end(p) /\ Parser_peek_next(p).type = type

\* Parser::match and Parser::match_next answer Parser_check and Parser_check_next,
\* and advance the parser when the answer is true.
Parser_match(p, type) == IF Parser_check(p, type) THEN Parser_advance(p) ELSE p

Parser_match_next(p, type) == IF Parser_check_next(p, type) THEN Parser_advance(p) ELSE p

\* The innermost running call of parse_tokens.
top_frame(p) == p.frames[Len(p.frames)]

callers(p) == SubSeq(p.frames, 1, Len(p.frames) - 1)

push_word(p, word) ==
    [p EXCEPT !.frames[Len(p.frames)].first_command = Append(@, word)]

\* return Err(error): every caller passes the error on (the ? of the recursive call).
parse_err(p, error) == [p EXCEPT !.status = "err", !.error = error, !.frames = <<>>]

parse_panic(p) == [p EXCEPT !.status = "panic"]

\* A call of parse_tokens returns Ok(list) to the frames in callers_: the
\* caller pushes every command of the list onto its commands.
parse_return(p, callers_, list) ==
    IF callers_ = <<>>
    THEN [p EXCEPT !.status = "ok", !.commands = list, !.frames = <<>>]
    ELSE [p EXCEPT !.frames =
              [callers_ EXCEPT ![Len(callers_)].commands = @ \o list]]

\* parse_tokens is called: the Eof check before the loop.
parse_tokens_enter(p) ==
    IF Parser_is_at_end(p)
    THEN parse_return(p, p.frames, <<>>)
    ELSE [p EXCEPT !.status = "parsing",
                   !.frames = Append(@, [first_command |-> <<>>, commands |-> <<>>])]

\* A variant of the end of parse_tokens that pushes the first command after
\* the commands of the recursive calls, where the code inserts it before them.
parse_tokens_finish_pushing(p) ==
    LET f == top_frame(p) IN
    IF f.first_command = <<>>
    THEN parse_panic(p)
    ELSE parse_return(p, callers(p),
                      f.commands
                          \o <<Command(Head(f.first_command), Tail(f.first_command))>>)

\* The loop of parse_tokens has ended: commands.insert(0, Command::new(
\* first_command[0], first_command[1..])), and the list is returned.
parse_tokens_finish(p) ==
    LET f == top_frame(p) IN
    IF f.first_command = <<>>
    THEN parse_panic(p)
    ELSE parse_return(p, callers(p),
                      <<Command(Head(f.first_command), Tail(f.first_command))>>
                          \o f.commands)

\* The AndAnd arm; t is the AndAnd token, already consumed.
parse_and_and(p, t) ==
    LET next_token == Parser_peek(p) IN
    IF next_token.type \in {"Pipe", "And", "AndAnd", "Eof", "OrOr", "Semicolon"}
    THEN parse_err(p, UnexpectedToken(next_token, t, {"DollarSign", "Part"}))
    ELSE parse_tokens_enter(p)

\* The LeftBrace arm without the check for the closing RightBrace.
parse_brace_unchecked(p, t) ==
    IF ~Parser_check_next(p, "Part")
    THEN parse_err(p, UnexpectedToken(Parser_peek_next(p), t, {"Part"}))
    ELSE LET p1 == Parser_advance(Parser_match_next(p, "Part"))
             p2 == Parser_match(p1, "ColonDash")
             p3 == IF Parser_check(p1, "ColonDash") THEN Parser_match(p2, "Part") ELSE p2
         IN  Parser_match(push_word(p3, unwrap_or(env_var(Parser_previous(p1).lexeme), "")),
                          "RightBrace")

\* The LeftBrace arm of the DollarSign arm; t is the LeftBrace token, not yet consumed.
\* (The parser after the name, p1, and after the word, p4, are bound through a
\* set, which makes TLC compute each of them once.)
parse_brace(p, t) ==
    IF ~Parser_check_next(p, "Part")
    THEN parse_err(p, UnexpectedToken(Parser_peek_next(p), t, {"Part"}))
    ELSE CHOOSE end \in
             {LET var == Parser_previous(p1).lexeme
                  p2 == Parser_match(p1, "ColonDash")
                  p3 == IF Parser_check(p1, "ColonDash") THEN Parser_match(p2, "Part") ELSE p2
                  has_default == Parser_check(p1, "ColonDash") /\ Parser_check(p2, "Part")
                  word == IF has_default
                          THEN unwrap_or(env_var(var), Parser_previous(p3).lexeme)
                          ELSE unwrap_or(env_var(var), "")
              IN  CHOOSE closed \in
                      {IF ~Parser_check(p4, "RightBrace")
                       THEN parse_err(p4, RequiredTokenNotFound(Parser_peek(p4),
                                                                Parser_peek_back(p4),
                                                                {"RightBrace"}))
                       ELSE Parser_match(p4, "RightBrace") :
                           p4 \in {push_word(p3, word)}} : TRUE :
                  p1 \in {Parser_advance(Parser_match_next(p, "Part"))}} : TRUE

\* The DollarSign arm; the DollarSign token is already consumed.
parse_dollar(p) ==
    LET t == Parser_peek(p) IN
    CASE t.type = "Part" ->
             LET p1 == Parser_advance(p)
             IN  push_word(p1, unwrap_or(env_var(Parser_previous(p1).lexeme), ""))
      [] t.type = "LeftBrace" -> parse_brace(p, t)
      [] OTHER -> parse_err(p, UnexpectedToken(t, Parser_peek_back(p), {"Part", "LeftBrace"}))

\* A variant of the loop of parse_tokens that reads a Part with peek and does
\* not consume it.
parse_tokens_iteration_peeking(p) ==
    LET p1 == Parser_advance(p)
        t == Parser_previous(p1)
    IN  CASE t.type = "AndAnd" -> parse_and_and(p1, t)
          [] t.type = "And" -> parse_panic(p1)
          [] t.type = "Part" -> push_word(p, t.lexeme)
          [] t.type = "Eof" -> parse_tokens_finish(p1)
          [] t.type = "DollarSign" -> parse_dollar(p1)
          [] OTHER -> parse_return(p1, callers(p1), <<>>)

\* One iteration of the loop of parse_tokens.
parse_tokens_iteration(p) ==
    LET p1 == Parser_advance(p)
        t == Parser_previous(p1)
    IN  CASE t.type = "AndAnd" -> parse_and_and(p1, t)
          [] t.type = "And" -> parse_panic(p1)
          [] t.type = "Part" -> push_word(p1, t.lexeme)
          [] t.type = "Eof" -> parse_tokens_finish(p1)
          [] t.type = "DollarSign" -> parse_dollar(p1)
          [] OTHER -> parse_return(p1, callers(p1), <<>>)

\* One step of parse_tokens: the call, or one turn of the innermost loop.
parse_tokens_step(p) ==
    IF p.status = "new" THEN parse_tokens_enter(p)
    ELSE IF Parser_is_at_end(p) THEN parse_tokens_finish(p)
    ELSE parse_tokens_iteration(p)

\* Parser::parse_tokens, from a new or a running parser to its result.
RECURSIVE parse_tokens(_)
parse_tokens(p) ==
    IF p.status \notin {"new", "parsing"} THEN p
    ELSE CHOOSE end \in {parse_tokens(q) : q \in {parse_tokens_step(p)}} : TRUE

----------------------------------------------------------------------------
(* The builtin dispatcher of src/lang/builtin.rs. Every builtin gets the    *)
(* whole argument vector, the keyword first. A builtin answers              *)
(* [code, aliases, cwd, out]: its result, the registry and the working      *)
(* directory it leaves, and the lines it printed on the standard output.    *)
(* os is what the operating system answers during the call.                 *)

Outcome(code, aliases, dir, out) ==
    [code |-> code, aliases |-> aliases, cwd |-> dir, out |-> out]

Join(words, sep) ==
    LET RECURSIVE join(_)
        join(ws) == IF ws = <<>> THEN ""
                    ELSE IF Len(ws) = 1 THEN ws[1]
                    ELSE ws[1] \o sep \o join(Tail(ws))
    IN  join(words)

\* str::split_once('='): the text before and after the first '='.
split_once(s, c) ==
    LET i == Find(s, c, 1) IN <<SubSeq(s, 1, i - 1), SubSeq(s, i + 1, Len(s))>>

DigitValue(c) == CHOOSE d \in 0..9 : Digit(d) = c

RECURSIVE DigitsToNat(_)
DigitsToNat(s) ==
    IF s = "" THEN 0
    ELSE 10 * DigitsToNat(SubSeq(s, 1, Len(s) - 1)) + DigitValue(CharAt(s, Len(s)))

AllDigits(s) == s # "" /\ \A i \in 1..Len(s) : CharAt(s, i) \in Digits

\* str::parse::<i32>, on the texts the model uses (no overflow).
parse_i32(s) ==
    IF AllDigits(s) THEN Some(DigitsToNat(s))
    ELSE IF Len(s) > 1 /\ CharAt(s, 1) = "-" /\ AllDigits(SubSeq(s, 2, Len(s)))
         THEN Some(-DigitsToNat(SubSeq(s, 2, Len(s))))
    ELSE IF Len(s) > 1 /\ CharAt(s, 1) = "+" /\ AllDigits(SubSeq(s, 2, Len(s)))
         THEN Some(DigitsToNat(SubSeq(s, 2, Len(s))))
    ELSE None

\* Builtin::from_str of src/lang/builtin.rs
lang_from_str(s) ==
    CASE s = "alias" -> "Alias"
      [] s = "echo" -> "Echo"
      [] s \in {"exit", "bye"} -> "Exit"
      [] s = "builtin" -> "Builtin"
      [] s = "history" -> "History"
      [] s \in {"cd", "chdir"} -> "Cd"
      [] s = "pwd" -> "Pwd"
      [] OTHER -> "Err"

\* The key whose value the query mode of Builtin::alias looks up.
lang_alias_query_key(args) == args[1]

\* A variant of Builtin::alias that sets the alias of its first argument
\* whatever follows it.
lang_alias_setting_first(args, aliases, dir) ==
    IF Len(args) >= 2 /\ Contains(args[2], "=")
    THEN LET kv == split_once(args[2], "=")
         IN  Outcome(0, Aliases_set(aliases, kv[1], kv[2]), dir, {})
    ELSE IF Len(args) = 1
         THEN Outcome(0, aliases, dir,
                      {k \o "='" \o aliases[k] \o "'" : k \in DOMAIN aliases})
    ELSE IF Len(args) = 2 THEN Outcome(2, aliases, dir, {})
    ELSE Outcome(3, aliases, dir, {})

\* Builtin::alias of src/lang/builtin.rs
lang_alias(args, aliases, dir) ==
    CASE Len(args) = 1 ->
             Outcome(0, aliases, dir,
                     {k \o "='" \o aliases[k] \o "'" : k \in DOMAIN aliases})
      [] Len(args) = 2 ->
             IF Contains(args[2], "=")
             THEN LET kv == split_once(args[2], "=")
                  IN  Outcome(0, Aliases_set(aliases, kv[1], kv[2]), dir, {})
             ELSE IF lang_alias_query_key(args) \in DOMAIN aliases
                  THEN Outcome(0, aliases, dir,
                               {args[2] \o "='" \o aliases[lang_alias_query_key(args)]
                                    \o "'"})
                  ELSE Outcome(2, aliases, dir, {})
      [] OTHER -> Outcome(3, aliases, dir, {})

\* What clap makes of cd's argument vector (args[1] is the program name): one
\* optional positional PATH; a second value or an option is refused.
cd_matches(args) ==
    CASE Len(args) = 1 -> [ok |-> TRUE, path |-> None]
      [] Len(args) = 2 /\ CharAt(args[2], 1) # "-" -> [ok |-> TRUE, path |-> Some(args[2])]
      [] OTHER -> [ok |-> FALSE, path |-> None]

\* The path cd goes to: the PATH argument, else HOME, else "/".
cd_target(args) == unwrap_or(cd_matches(args).path, unwrap_or(env_var("HOME"), "/"))

\* cd without the check that the path exists: every failure is the OS's.
lang_cd_unvalidated(args, aliases, dir, os) ==
    IF ~cd_matches(args).ok THEN Outcome(1, aliases, dir, {})
    ELSE IF ~os.exists \/ ~os.chdir_ok THEN Outcome(3, aliases, dir, {})
    ELSE Outcome(0, aliases, cd_target(args), {})

\* Builtin::cd of src/lang/builtin.rs
lang_cd(args, aliases, dir, os) ==
    IF ~cd_matches(args).ok THEN Outcome(1, aliases, dir, {})
    ELSE IF ~os.exists THEN Outcome(2, aliases, dir, {})
    ELSE IF ~os.chdir_ok THEN Outcome(3, aliases, dir, {})
    ELSE Outcome(0, aliases, cd_target(args), {})

\* Builtin::echo of src/lang/builtin.rs
lang_echo(args, aliases, dir) == Outcome(0, aliases, dir, {Join(Tail(args), " ")})

\* Builtin::exit of src/lang/builtin.rs: the number it returns to its caller.
lang_exit(args) ==
    unwrap_or(parse_i32(IF Len(args) >= 1 THEN args[1] ELSE "0"), 0)

\* Builtin::history of src/lang/builtin.rs
lang_history(args, aliases, dir, os) ==
    IF ~os.history.some THEN Outcome(1, aliases, dir, {})
    ELSE Outcome(0, aliases, dir,
                 {to_string(i) \o " " \o os.history.value[i] :
                      i \in 1..Len(os.history.value)})

\* Builtin::pwd of src/lang/builtin.rs
lang_pwd(args, aliases, dir, os) ==
    IF ~os.cwd_ok THEN Outcome(1, aliases, dir, {}) ELSE Outcome(0, aliases, dir, {dir})

\* Builtin::run and Builtin::builtin of src/lang/builtin.rs. run answers
\* [ok, outcome] or [ok |-> FALSE, kind]; builtin runs the rest of its
\* vector and turns an error into a code.
RECURSIVE lang_run(_, _, _, _)
lang_builtin(args, aliases, dir, os) ==
    LET r == lang_run(Tail(args), aliases, dir, os) IN
    IF r.ok THEN r.outcome
    ELSE IF r.kind = "InvalidBuiltin" THEN Outcome(1, aliases, dir, {})
    ELSE Outcome(2, aliases, dir, {})

lang_run(args, aliases, dir, os) ==
    IF args = <<>> THEN [ok |-> FALSE, kind |-> "InvalidInput"]
    ELSE LET b == lang_from_str(args[1]) IN
         CASE b = "Alias" -> [ok |-> TRUE, outcome |-> lang_alias(args, aliases, dir)]
           [] b = "Builtin" -> [ok |-> TRUE, outcome |-> lang_builtin(args, aliases, dir, os)]
           [] b = "Cd" -> [ok |-> TRUE, outcome |-> lang_cd(args, aliases, dir, os)]
           [] b = "Echo" -> [ok |-> TRUE, outcome |-> lang_echo(args, aliases, dir)]
           [] b = "Exit" -> [ok |-> TRUE,
                             outcome |-> Outcome(lang_exit(args), aliases, dir, {})]
           [] b = "History" -> [ok |-> TRUE,
                                outcome |-> lang_history(args, aliases, dir, os)]
           [] b = "Pwd" -> [ok |-> TRUE, outcome |-> lang_pwd(args, aliases, dir, os)]
           [] OTHER -> [ok |-> FALSE, kind |-> "InvalidBuiltin"]

----------------------------------------------------------------------------
(* What a variable holds in a specification that does not use it. *)

Idle == [status |-> "idle"]

Running == [ended |-> FALSE]

Exited(status) == [ended |-> TRUE, status |-> status]

----------------------------------------------------------------------------
(* SpecScan: scan_tokens on every short input, one pass of its loop at a    *)
(* time.                                                                    *)

Alphabet == {"a", "_", "-", "&", "|", "$", "?", "{", "}", ":", "~", ";", " ", "'", "\""}

\* Inputs longer than MaxLen that the claims name.
ScanSamples == {"\"a b\" c", "'a b' c", "a\"b c\" d", "~a;b", "~/a b", "echo $?\n",
                "a && b\n", "${A:-b}", "~aa b"}

ScanSources == StringsUpTo(Alphabet, MaxLen) \cup ScanSamples

\* The environment, the registry and the exit code the scanner reads.
ScanConfigs ==
    {[env |-> [n \in {} |-> ""], aliases |-> NoAliases, code |-> 0],
     [env |-> [n \in {"HOME"} |-> "/h"], aliases |-> [k \in {"a"} |-> "b c"], code |-> 130]}

InitScan ==
    /\ \E c \in ScanConfigs :
          /\ env = c.env
          /\ ALIASES = c.aliases
          /\ PREVIOUS_EXIT_CODE = c.code
    /\ \E source \in ScanSources : scanner = Scanner_new(source)
    /\ parser = Idle
    /\ call = Idle
    /\ cwd = "/"
    /\ terminated = Running
    /\ shell = Idle
    /\ expand = Idle

\* One pass of the loop of scan_tokens: start = current, then scan_token.
ScanToken ==
    /\ scanner.status = "scanning"
    /\ ~Scanner_is_at_end(scanner)
    /\ scanner' = scan_tokens_iteration(scanner)
    /\ UNCHANGED <<env, ALIASES, PREVIOUS_EXIT_CODE, parser, call, cwd, terminated,
                   shell, expand>>

\* The loop of scan_tokens has ended: Eof is pushed and the tokens are returned.
ScanEof ==
    /\ scanner.status = "scanning"
    /\ Scanner_is_at_end(scanner)
    /\ scanner' = scan_tokens_finish(scanner)
    /\ UNCHANGED <<env, ALIASES, PREVIOUS_EXIT_CODE, parser, call, cwd, terminated,
                   shell, expand>>

NextScan == ScanToken \/ ScanEof

SpecScan == InitScan /\ [][NextScan]_vars

----------------------------------------------------------------------------
(* SpecParse: parse_tokens on every short Eof-terminated token stream, one  *)
(* call or one pass of a loop at a time.                                    *)

Spelling(type) ==
    CASE type = "AndAnd" -> "&&" [] type = "And" -> "&" [] type = "DollarSign" -> "$"
      [] type = "Pipe" -> "|" [] type = "OrOr" -> "||" [] type = "Semicolon" -> ";"
      [] type = "LeftBrace" -> "{" [] type = "RightBrace" -> "}"
      [] type = "ColonDash" -> ":-" [] OTHER -> ""

\* The pieces token streams are made of: every single token but Eof, and the
\* expansions, whole and cut short.
Segments ==
    {<<type>> : type \in TokenType \ {"Eof"}}
    \cup {<<"DollarSign", "Part">>,
          <<"DollarSign", "LeftBrace", "Part", "RightBrace">>,
          <<"DollarSign", "LeftBrace", "Part", "ColonDash", "Part", "RightBrace">>,
          <<"DollarSign", "LeftBrace", "Part">>,
          <<"DollarSign", "LeftBrace", "Part", "ColonDash", "Part">>}

RECURSIVE SegmentSeqs(_)
SegmentSeqs(n) ==
    IF n = 0 THEN {<<>>}
    ELSE LET shorter == SegmentSeqs(n - 1)
         IN  shorter \cup {s \o g : s \in shorter, g \in Segments}

\* The stream of the given token types, Eof added. The Part at place i is the
\* word "w<i>", so that every word of a stream is told apart.
TokenStream(types) ==
    [i \in 1..Len(types) + 1 |->
        IF i > Len(types) THEN Token("Eof", "", i)
        ELSE IF types[i] = "Part" THEN Token("Part", "w" \o to_string(i), i)
        ELSE Token(types[i], Spelling(types[i]), i)]

\* The commands AND-chains are made of: words and expansions.
ChainPieces ==
    {<<"Part">>, <<"Part", "Part">>, <<"DollarSign", "Part">>,
     <<"Part", "DollarSign", "LeftBrace", "Part", "ColonDash", "Part", "RightBrace">>,
     <<"DollarSign", "LeftBrace", "Part", "RightBrace", "Part">>}

\* The token types of the chains c1 && ... && cn, n <= MaxCommands.
RECURSIVE Chained(_)
Chained(n) ==
    IF n = 1 THEN ChainPieces
    ELSE LET shorter == Chained(n - 1)
         IN  shorter \cup {c \o <<"AndAnd">> \o d : c \in shorter, d \in ChainPieces}

TokenStreams ==
    {TokenStream(types) : types \in SegmentSeqs(MaxSegments) \cup Chained(MaxCommands)}

\* The variables named by the words at even places are set.
ParseEnv == [n \in {"w2", "w4", "w6", "w8"} |-> "val-" \o n]

InitParse ==
    /\ env = ParseEnv
    /\ ALIASES = NoAliases
    /\ PREVIOUS_EXIT_CODE = 0
    /\ scanner = Idle
    /\ \E tokens \in TokenStreams : parser = Parser_new(tokens)
    /\ call = Idle
    /\ cwd = "/"
    /\ terminated = Running
    /\ shell = Idle
    /\ expand = Idle

\* parse_tokens is called on the new parser.
ParseCall ==
    /\ parser.status = "new"
    /\ parser' = parse_tokens_enter(parser)
    /\ UNCHANGED <<env, ALIASES, PREVIOUS_EXIT_CODE, scanner, call, cwd, terminated,
                   shell, expand>>

\* One pass of the loop of the innermost parse_tokens call.
ParseToken ==
    /\ parser.status = "parsing"
    /\ ~Parser_is_at_end(parser)
    /\ parser' = parse_tokens_iteration(parser)
    /\ UNCHANGED <<env, ALIASES, PREVIOUS_EXIT_CODE, scanner, call, cwd, terminated,
                   shell, expand>>

\* The loop of the innermost parse_tokens call has ended.
ParseReturn ==
    /\ parser.status = "parsing"
    /\ Parser_is_at_end(parser)
    /\ parser' = parse_tokens_finish(parser)
    /\ UNCHANGED <<env, ALIASES, PREVIOUS_EXIT_CODE, scanner, call, cwd, terminated,
                   shell, expand>>

NextParse == ParseCall \/ ParseToken \/ ParseReturn

SpecParse == InitParse /\ [][NextParse]_vars

\* SpecParseFair: the same calls of parse_tokens, the parser made from the
\* tokens in a step of its own; parse_tokens is a sequential call, which
\* takes its next step once it is called.
InitParseFair ==
    /\ env = ParseEnv
    /\ ALIASES = NoAliases
    /\ PREVIOUS_EXIT_CODE = 0
    /\ scanner = Idle
    /\ parser = Idle
    /\ call = Idle
    /\ cwd = "/"
    /\ terminated = Running
    /\ shell = Idle
    /\ expand = Idle

\* The streams of SpecParseFair: fewer segments, the same chains.
FairStreams ==
    {TokenStream(types) : types \in SegmentSeqs(MaxFairSegments) \cup Chained(MaxCommands)}

\* Parser::new(tokens)
ParseNew ==
    /\ parser.status = "idle"
    /\ \E tokens \in FairStreams : parser' = Parser_new(tokens)
    /\ UNCHANGED <<env, ALIASES, PREVIOUS_EXIT_CODE, scanner, call, cwd, terminated,
                   shell, expand>>

NextParseFair == ParseNew \/ ParseCall \/ ParseToken \/ ParseReturn

SpecParseFair == InitParseFair /\ [][NextParseFair]_vars /\ WF_vars(NextParseFair)

----------------------------------------------------------------------------
(* SpecBuiltin: calls of Builtin::run of src/lang/builtin.rs, one after the *)
(* other, on every short argument vector.                                   *)

ArgWords == {"alias", "builtin", "cd", "echo", "exit", "pwd", "history",
             "ll=ls", "ll", "5", "/d", "-h"}

\* A vector with a word that is not in ArgWords: an alias set to a quoted value.
ArgSamples == {<<"alias", "ll='ls'">>}

RECURSIVE ArgVectors(_)
ArgVectors(n) ==
    IF n = 0 THEN {<<>>}
    ELSE LET shorter == ArgVectors(n - 1)
         IN  shorter \cup {Append(v, w) : v \in {u \in shorter : Len(u) = n - 1},
                                           w \in ArgWords}

\* The vector the builtin that does the work is given: leading "builtin"s dropped.
RECURSIVE effective_args(_)
effective_args(args) ==
    IF args # <<>> /\ lang_from_str(args[1]) = "Builtin"
    THEN effective_args(Tail(args)) ELSE args

OsDefault == [exists |-> TRUE, chdir_ok |-> TRUE, history |-> None, cwd_ok |-> TRUE]

\* What the operating system may answer during the call: whether cd's target
\* exists and can be entered, what the history file holds if it can be read,
\* and whether the working directory is known.
OsAnswers(args) ==
    LET a == effective_args(args)
        b == IF a = <<>> THEN "Err" ELSE lang_from_str(a[1])
    IN  CASE b = "Cd" /\ cd_matches(a).ok ->
                 {[OsDefault EXCEPT !.exists = e, !.chdir_ok = c] :
                      e \in BOOLEAN, c \in BOOLEAN} \ {[OsDefault EXCEPT !.exists = FALSE]}
          [] b = "History" ->
                 {OsDefault, [OsDefault EXCEPT !.history = Some(<<"ls", "pwd">>)]}
          [] b = "Pwd" -> {OsDefault, [OsDefault EXCEPT !.cwd_ok = FALSE]}
          [] OTHER -> {OsDefault}

InitBuiltin ==
    /\ env \in {[n \in {} |-> ""], [n \in {"HOME"} |-> "/h"]}
    /\ ALIASES = NoAliases
    /\ PREVIOUS_EXIT_CODE = 0
    /\ scanner = Idle
    /\ parser = Idle
    /\ call = Idle
    /\ cwd = "/"
    /\ terminated = Running
    /\ shell = Idle
    /\ expand = Idle

\* Builtin::run(args). call keeps the vector, the answers of the operating
\* system, the registry and the directory before the call, and the result.
BuiltinRun ==
    /\ call.status = "idle"
    /\ \E args \in ArgVectors(MaxArgs) \cup ArgSamples : \E os \in OsAnswers(args) :
        LET r == lang_run(args, ALIASES, cwd, os) IN
        /\ call' = [status |-> "returned", args |-> args, os |-> os,
                    aliases_before |-> ALIASES, cwd_before |-> cwd,
                    ok |-> r.ok,
                    code |-> IF r.ok THEN r.outcome.code ELSE -1,
                    out |-> IF r.ok THEN r.outcome.out ELSE {}]
        /\ ALIASES' = IF r.ok THEN r.outcome.aliases ELSE ALIASES
        /\ cwd' = IF r.ok THEN r.outcome.cwd ELSE cwd
        /\ UNCHANGED <<env, PREVIOUS_EXIT_CODE, scanner, parser, terminated, shell, expand>>

\* The caller of Builtin::run has taken the result.
BuiltinReturned ==
    /\ call.status = "returned"
    /\ call' = Idle
    /\ UNCHANGED <<env, ALIASES, PREVIOUS_EXIT_CODE, scanner, parser, cwd, terminated,
                   shell, expand>>

NextBuiltin == BuiltinRun \/ BuiltinReturned

SpecBuiltin == InitBuiltin /\ [][NextBuiltin]_vars

----------------------------------------------------------------------------
(* Command::interpret of src/command.rs and the builtins of src/builtin.rs  *)
(* it calls, each with the command's args (the keyword left out).           *)

\* Builtin::from_str of src/builtin.rs
from_str(s) ==
    CASE s = "alias" -> "Alias"
      [] s = "echo" -> "Echo"
      [] s \in {"exit", "bye"} -> "Exit"
      [] s = "builtin" -> "Builtin"
      [] s = "history" -> "History"
      [] s = "cd" -> "Cd"
      [] s = "pwd" -> "Pwd"
      [] OTHER -> "Err"

\* Builtin::alias of src/builtin.rs
Builtin_alias(args, aliases, dir) ==
    CASE Len(args) = 0 ->
             Outcome(0, aliases, dir,
                     {k \o "='" \o aliases[k] \o "'" : k \in DOMAIN aliases})
      [] Len(args) = 1 ->
             IF Contains(args[1], "=")
             THEN LET kv == split_once(args[1], "=")
                  IN  Outcome(0, Aliases_set(aliases, kv[1], kv[2]), dir, {})
             ELSE IF args[1] \in DOMAIN aliases
                  THEN Outcome(0, aliases, dir, {args[1] \o "='" \o aliases[args[1]] \o "'"})
                  ELSE Outcome(2, aliases, dir, {args[1] \o " not found"})
      [] OTHER -> Outcome(3, aliases, dir, {})

\* Builtin::cd of src/builtin.rs
Builtin_cd(args, aliases, dir, os) ==
    IF ~os.exists \/ ~os.chdir_ok THEN Outcome(1, aliases, dir, {})
    ELSE Outcome(0, aliases,
                 IF Len(args) >= 1 THEN args[1] ELSE unwrap_or(env_var("HOME"), "/"), {})

\* Builtin::echo of src/builtin.rs
Builtin_echo(args, aliases, dir) == Outcome(0, aliases, dir, {Join(args, " ")})

\* Builtin::exit of src/builtin.rs: the status interpret ends the process with.
Builtin_exit(args) == IF args = <<>> THEN 0 ELSE unwrap_or(parse_i32(args[1]), 0)

\* What may become of an external command. The spawn fails with an OS error
\* (ENOENT, 2, when the executable is not found; EACCES, 13, or ENOEXEC, 8,
\* among the others), or the wait fails, or the child exits with a code, or a
\* signal ends the child.
ProcessOutcomes ==
    {[class |-> "not_found", errno |-> 2],
     [class |-> "spawn_error", errno |-> 13],
     [class |-> "spawn_error", errno |-> 8],
     [class |-> "wait_error", errno |-> 0],
     [class |-> "exited", errno |-> 0],
     [class |-> "exited", errno |-> 1],
     [class |-> "interrupted", errno |-> 0]}

FailureClasses == {"not_found", "spawn_error", "wait_error", "interrupted"}

\* The status interpret answers for an external command: the raw OS error of a
\* failed spawn, 2 for a failed wait, the child's exit code; None when
\* process.code() is None and its unwrap panics.
process_status(outcome) ==
    CASE outcome.class \in {"not_found", "spawn_error"} -> Some(outcome.errno)
      [] outcome.class = "wait_error" -> Some(2)
      [] outcome.class = "exited" -> Some(outcome.errno)
      [] OTHER -> None

\* The program interpret spawns for a keyword: its alias, if it has one.
process_program(keyword, aliases) ==
    IF keyword \in DOMAIN aliases THEN aliases[keyword] ELSE keyword

\* Builtin::history of src/builtin.rs
Builtin_history(args, aliases, dir, os) ==
    IF ~os.history.some THEN Outcome(1, aliases, dir, {})
    ELSE Outcome(0, aliases, dir,
                 {to_string(i) \o " " \o os.history.value[i] :
                      i \in 1..Len(os.history.value)})

\* Builtin::pwd of src/builtin.rs
Builtin_pwd(args, aliases, dir, os) ==
    IF ~os.cwd_ok THEN Outcome(1, aliases, dir, {}) ELSE Outcome(0, aliases, dir, {dir})

Returned(outcome) ==
    [kind |-> "returned", outcome |-> outcome, class |-> "builtin", program |-> ""]

\* Command::interpret. It answers [kind |-> "returned", outcome, class], or
\* [kind |-> "exit", status] when the process ends, or [kind |-> "panic"].
\* os is what the operating system answers, process what becomes of the
\* child. The match of interpret has no arm for the keyword "builtin".
interpret(command, aliases, dir, os, process) ==
    LET b == from_str(command.keyword) IN
    CASE b = "Alias" -> Returned(Builtin_alias(command.args, aliases, dir))
      [] b = "Cd" -> Returned(Builtin_cd(command.args, aliases, dir, os))
      [] b = "Echo" -> Returned(Builtin_echo(command.args, aliases, dir))
      [] b = "Exit" -> [kind |-> "exit", status |-> Builtin_exit(command.args)]
      [] b = "History" -> Returned(Builtin_history(command.args, aliases, dir, os))
      [] b = "Pwd" -> Returned(Builtin_pwd(command.args, aliases, dir, os))
      [] b = "Err" ->
             IF command.keyword = "" THEN Returned(Outcome(0, aliases, dir, {}))
             ELSE IF process_status(process).some
                  THEN [kind |-> "returned",
                        outcome |-> Outcome(process_status(process).value, aliases, dir, {}),
                        class |-> process.class,
                        program |-> process_program(command.keyword, aliases)]
                  ELSE [kind |-> "panic"]

\* Whether the command is run as an external process.
is_external(command) == from_str(command.keyword) = "Err" /\ command.keyword # ""

----------------------------------------------------------------------------
(* Command::run and the read-eval loop of src/main.rs.                      *)

\* Command::run, up to the commands: the line is scanned and the tokens are
\* parsed. It answers the parser at its end, or Idle when the scanner panics.
run_parse(line) ==
    LET s == scan_tokens(Scanner_new(line)) IN
    IF s.status = "panic" THEN [status |-> "panic"]
    ELSE parse_tokens(Parser_new(s.tokens))

\* Command::run, after a command: the loop over the commands stops at the
\* first result that is not 0.
run_stops(code) == code # 0

\* A variant of the match in the loop of main that takes the Ok of run for 0.
line_code_ok_is_zero(result) == IF result.ok THEN 0 ELSE ErrorKind_code(result.error)

\* The code the loop of main records for the line: the result of run, or the
\* code of its ParseError.
line_code(result) == IF result.ok THEN result.code ELSE ErrorKind_code(result.error)

\* What the operating system may answer while interpret runs the command.
interpret_os(command) ==
    LET b == from_str(command.keyword) IN
    CASE b = "Cd" -> {[OsDefault EXCEPT !.exists = e, !.chdir_ok = c] :
                          e \in BOOLEAN, c \in BOOLEAN} \ {[OsDefault EXCEPT !.exists = FALSE]}
      [] b = "History" -> {OsDefault, [OsDefault EXCEPT !.history = Some(<<"ls", "pwd">>)]}
      [] b = "Pwd" -> {OsDefault, [OsDefault EXCEPT !.cwd_ok = FALSE]}
      [] OTHER -> {OsDefault}

\* What may become of the child interpret spawns for the command, if it spawns one.
interpret_process(command) ==
    IF is_external(command) THEN ProcessOutcomes ELSE {[class |-> "none", errno |-> 0]}

----------------------------------------------------------------------------
(* Spec: the read-eval loop of main on lines read from the standard input.  *)
(* shell.status is "prompt" at the top of the loop, "interpret" while run   *)
(* goes through the commands of the line, "record" when run has returned,   *)
(* and "stopped", "exited" or "panicked" when the process has ended.        *)

ShellCommands == {"echo a", "prog", "cd /d", "alias ll=prog", "exit 3", "ll"}

RECURSIVE Chains(_)
Chains(n) ==
    IF n = 1 THEN ShellCommands
    ELSE LET shorter == Chains(n - 1)
         IN  shorter \cup {c \o " && " \o d : c \in shorter, d \in ShellCommands}

\* Lines that are no AND-chain of commands: blank, cut short, with tokens the
\* parser does not implement, and with a reference to the previous exit code.
OtherLines == {"", "  ", "prog &&", "echo ${A", "echo a && echo ${A", "echo a && $ |",
               "prog | prog", "&& prog", "prog & prog", "echo $?"}

\* read_command answers the line with its newline.
ShellLines == {line \o "\n" : line \in Chains(MaxChain) \cup OtherLines}

Prompt == [status |-> "prompt"]

Init ==
    /\ env = [n \in {"HOME"} |-> "/h"]
    /\ ALIASES = NoAliases
    /\ PREVIOUS_EXIT_CODE = 0
    /\ scanner = Idle
    /\ parser = Idle
    /\ call = Idle
    /\ cwd = "/"
    /\ terminated = Running
    /\ shell = Prompt
    /\ expand = Idle

\* A SIGINT is pending at the top of the loop: 130 is recorded and the loop
\* starts over.
Interrupt ==
    /\ shell.status = "prompt"
    /\ PREVIOUS_EXIT_CODE' = 130
    /\ UNCHANGED <<env, ALIASES, scanner, parser, call, cwd, terminated, shell, expand>>

\* A SIGTERM is pending at the top of the loop: the loop ends.
Terminate ==
    /\ shell.status = "prompt"
    /\ shell' = [status |-> "stopped"]
    /\ UNCHANGED <<env, ALIASES, PREVIOUS_EXIT_CODE, scanner, parser, call, cwd,
                   terminated, expand>>

\* read_command reads no byte: the process exits with status 0.
EndOfInput ==
    /\ shell.status = "prompt"
    /\ shell' = [status |-> "exited"]
    /\ terminated' = Exited(0)
    /\ UNCHANGED <<env, ALIASES, PREVIOUS_EXIT_CODE, scanner, parser, call, cwd, expand>>

\* What run has in hand for a line whose commands are parsed.
Line(line, commands) ==
    [status |-> "interpret", line |-> line, commands |-> commands, index |-> 1,
     started |-> <<>>, results |-> <<>>, code |-> 0, error |-> None,
     last |-> [class |-> "none"]]

\* run has returned result to the loop of main.
RunReturns(sh, result) ==
    [sh EXCEPT !.status = "record", !.code = line_code(result),
               !.error = IF result.ok THEN None ELSE Some(result.error)]

\* A line is read and run is called on it: the line is scanned and parsed. A
\* ParseError, and a line of no command, make run return.
ReadLine ==
    /\ shell.status = "prompt"
    /\ \E line \in ShellLines :
          LET p == run_parse(line) IN
          shell' = CASE p.status = "panic" -> [status |-> "panicked", line |-> line]
                     [] p.status = "err" ->
                            RunReturns(Line(line, <<>>), [ok |-> FALSE, error |-> p.error])
                     [] p.status = "ok" /\ p.commands = <<>> ->
                            RunReturns(Line(line, <<>>), [ok |-> TRUE, code |-> 0])
                     [] OTHER -> Line(line, p.commands)
    /\ UNCHANGED <<env, ALIASES, PREVIOUS_EXIT_CODE, scanner, parser, call, cwd,
                   terminated, expand>>

\* run interprets the next command of the line. A result that is not 0, and
\* the last command, make run return the result.
Interpret ==
    /\ shell.status = "interpret"
    /\ LET command == shell.commands[shell.index] IN
       \E os \in interpret_os(command), process \in interpret_process(command) :
          LET r == interpret(command, ALIASES, cwd, os, process)
              sh == [shell EXCEPT !.started = Append(@, command)]
          IN  CASE r.kind = "returned" ->
                       LET code == r.outcome.code
                           done == [sh EXCEPT !.results = Append(@, code),
                                              !.last = [class |-> r.class,
                                                        status |-> code,
                                                        program |-> r.program]]
                       IN  /\ ALIASES' = r.outcome.aliases
                           /\ cwd' = r.outcome.cwd
                           /\ terminated' = terminated
                           /\ shell' = IF run_stops(code) \/ shell.index = Len(shell.commands)
                                       THEN RunReturns(done, [ok |-> TRUE, code |-> code])
                                       ELSE [done EXCEPT !.index = @ + 1]
                [] r.kind = "exit" ->
                       /\ terminated' = Exited(r.status)
                       /\ shell' = [sh EXCEPT !.status = "exited"]
                       /\ UNCHANGED <<ALIASES, cwd>>
                [] OTHER ->
                       /\ shell' = [sh EXCEPT !.status = "panicked",
                                              !.last = [class |-> process.class]]
                       /\ UNCHANGED <<ALIASES, cwd, terminated>>
    /\ UNCHANGED <<env, PREVIOUS_EXIT_CODE, scanner, parser, call, expand>>

\* The code of the line is written to PREVIOUS_EXIT_CODE and the loop starts over.
Record ==
    /\ shell.status = "record"
    /\ PREVIOUS_EXIT_CODE' = shell.code
    /\ shell' = Prompt
    /\ UNCHANGED <<env, ALIASES, scanner, parser, call, cwd, terminated, expand>>

Next == Interrupt \/ Terminate \/ EndOfInput \/ ReadLine \/ Interpret \/ Record

Spec == Init /\ [][Next]_vars

----------------------------------------------------------------------------
(* SpecExpand: a line "echo $NAME" or "echo ${NAME:-fallback}" taken        *)
(* through scan_tokens and then parse_tokens, for every short NAME, set in  *)
(* the environment or not.                                                  *)

NameAlphabet == {"A", "B", "_"}

Names == (StringsUpTo(NameAlphabet, MaxName) \ {""}) \cup {"USER", "UNSET_VAR"}

InitExpand ==
    /\ \E name \in Names, set \in BOOLEAN, braces \in BOOLEAN :
          /\ env = IF set THEN [n \in {name} |-> "alice"] ELSE [n \in {} |-> ""]
          /\ expand = [status |-> "line", name |-> name, set |-> set, braces |-> braces,
                       line |-> IF braces THEN "echo ${" \o name \o ":-fallback}\n"
                                ELSE "echo $" \o name \o "\n"]
    /\ ALIASES = NoAliases
    /\ PREVIOUS_EXIT_CODE = 0
    /\ scanner = Idle
    /\ parser = Idle
    /\ call = Idle
    /\ cwd = "/"
    /\ terminated = Running
    /\ shell = Idle

\* Scanner::new(line).scan_tokens()
ExpandScan ==
    /\ expand.status = "line"
    /\ scanner' = scan_tokens(Scanner_new(expand.line))
    /\ expand' = [expand EXCEPT !.status = "scanned"]
    /\ UNCHANGED <<env, ALIASES, PREVIOUS_EXIT_CODE, parser, call, cwd, terminated, shell>>

\* Parser::new(tokens).parse_tokens()
ExpandParse ==
    /\ expand.status = "scanned"
    /\ scanner.status = "done"
    /\ parser' = parse_tokens(Parser_new(scanner.tokens))
    /\ expand' = [expand EXCEPT !.status = "parsed"]
    /\ UNCHANGED <<env, ALIASES, PREVIOUS_EXIT_CODE, scanner, call, cwd, terminated, shell>>

NextExpand == ExpandScan \/ ExpandParse

SpecExpand == InitExpand /\ [][NextExpand]_vars

----------------------------------------------------------------------------
(* SpecWords: a line of words separated by one space, taken through         *)
(* scan_tokens and then parse_tokens. The words have no quote, `$`, `~`,    *)
(* `:` or operator character.                                               *)

\* Words of letters and digits, and with `/`, `.`, `-`, `_` and `,` in them.
PlainWords == {"echo", "a1", "/x.y", "-l", "a_b", "x,y"}

RECURSIVE WordLists(_)
WordLists(n) ==
    IF n = 1 THEN {<<w>> : w \in PlainWords}
    ELSE LET shorter == WordLists(n - 1)
         IN  shorter \cup {Append(ws, w) : ws \in shorter, w \in PlainWords}

InitWords ==
    /\ \E words \in WordLists(MaxWords) :
          expand = [status |-> "line", words |-> words, line |-> Join(words, " ") \o "\n"]
    /\ env = [n \in {} |-> ""]
    /\ ALIASES = NoAliases
    /\ PREVIOUS_EXIT_CODE = 0
    /\ scanner = Idle
    /\ parser = Idle
    /\ call = Idle
    /\ cwd = "/"
    /\ terminated = Running
    /\ shell = Idle

SpecWords == InitWords /\ [][NextExpand]_vars

----------------------------------------------------------------------------
(* SpecResolve: a line whose first word may be an alias, taken through      *)
(* scan_tokens and parse_tokens, and its first command through interpret,   *)
(* with registries in which aliases form a chain or a cycle.                *)

AliasRegistries ==
    {NoAliases,
     [k \in {"a", "b"} |-> IF k = "a" THEN "b" ELSE "c"],
     [k \in {"a"} |-> "a"],
     [k \in {"a", "b"} |-> IF k = "a" THEN "b" ELSE "a"]}

ResolveLines == {"a\n", "b\n", "a b\n", "~a\n"}

InitResolve ==
    /\ ALIASES \in AliasRegistries
    /\ \E line \in ResolveLines : expand = [status |-> "line", line |-> line]
    /\ env \in {[n \in {} |-> ""], [n \in {"HOME"} |-> "/h"]}
    /\ PREVIOUS_EXIT_CODE = 0
    /\ scanner = Idle
    /\ parser = Idle
    /\ call = Idle
    /\ cwd = "/"
    /\ terminated = Running
    /\ shell = Idle

\* The first command of the line is interpreted; expand keeps what interpret
\* answers.
ResolveInterpret ==
    /\ expand.status = "parsed"
    /\ parser.status = "ok"
    /\ parser.commands # <<>>
    /\ LET command == parser.commands[1] IN
       \E os \in interpret_os(command), process \in interpret_process(command) :
          expand' = [status |-> "interpreted", line |-> expand.line,
                     result |-> interpret(command, ALIASES, cwd, os, process)]
    /\ UNCHANGED <<env, ALIASES, PREVIOUS_EXIT_CODE, scanner, parser, call, cwd,
                   terminated, shell>>

NextResolve == ExpandScan \/ ExpandParse \/ ResolveInterpret

\* The scanner, the parser and interpret each run to their end once started.
SpecResolve == InitResolve /\ [][NextResolve]_vars /\ WF_vars(NextResolve)

----------------------------------------------------------------------------
(* SpecStartup: main runs the lines of $HOME/.rshellrc, one after the       *)
(* other, before it enters its loop. shell keeps the script (rc), the place *)
(* of the line in hand (at) and the errors reported so far (log);           *)
(* shell.status is "startup" between two lines.                             *)

\* Lines of a script: builtins, an external program, and two lines that do
\* not parse.
StartupLines == {"echo a", "alias ll=prog", "prog", "echo ${A", "prog &&"}

RECURSIVE StartupScripts(_)
StartupScripts(n) ==
    IF n = 0 THEN {<<>>}
    ELSE LET shorter == StartupScripts(n - 1)
         IN  shorter \cup {Append(rc, line) : rc \in shorter, line \in StartupLines}

InitStartup ==
    /\ env = [n \in {"HOME"} |-> "/h"]
    /\ ALIASES = NoAliases
    /\ PREVIOUS_EXIT_CODE = 0
    /\ scanner = Idle
    /\ parser = Idle
    /\ call = Idle
    /\ cwd = "/"
    /\ terminated = Running
    /\ \E rc \in StartupScripts(MaxScript) :
          shell = [status |-> "startup", rc |-> rc, at |-> 1, log |-> <<>>]
    /\ expand = Idle

\* lines.next_line() answers the next line of the script and run is called on
\* it: the line is scanned and parsed.
StartupRead ==
    /\ shell.status = "startup"
    /\ shell.at <= Len(shell.rc)
    /\ LET line == shell.rc[shell.at]
           p == run_parse(line)
           script == [rc |-> shell.rc, at |-> shell.at, log |-> shell.log]
       IN  shell' = script @@
                    (CASE p.status = "panic" -> [status |-> "panicked", line |-> line]
                       [] p.status = "err" ->
                              RunReturns(Line(line, <<>>), [ok |-> FALSE, error |-> p.error])
                       [] p.status = "ok" /\ p.commands = <<>> ->
                              RunReturns(Line(line, <<>>), [ok |-> TRUE, code |-> 0])
                       [] OTHER -> Line(line, p.commands))
    /\ UNCHANGED <<env, ALIASES, PREVIOUS_EXIT_CODE, scanner, parser, call, cwd,
                   terminated, expand>>

\* run has returned: its Err is reported with rshell::error!, its Ok is
\* dropped, and the `while let` goes on to the next line.
StartupContinue ==
    /\ shell.status = "record"
    /\ "rc" \in DOMAIN shell
    /\ shell' = [status |-> "startup", rc |-> shell.rc, at |-> shell.at + 1,
                 log |-> IF shell.error.some THEN Append(shell.log, shell.error.value)
                         ELSE shell.log]
    /\ UNCHANGED <<env, ALIASES, PREVIOUS_EXIT_CODE, scanner, parser, call, cwd,
                   terminated, expand>>

\* The script has no more line: main goes on to its loop.
StartupEnd ==
    /\ shell.status = "startup"
    /\ shell.at > Len(shell.rc)
    /\ shell' = Prompt
    /\ UNCHANGED <<env, ALIASES, PREVIOUS_EXIT_CODE, scanner, parser, call, cwd,
                   terminated, expand>>

NextStartup == StartupRead \/ Interpret \/ StartupContinue \/ StartupEnd

SpecStartup == InitStartup /\ [][NextStartup]_vars

----------------------------------------------------------------------------
(* The claims. *)

EofCount(tokens) == Cardinality({i \in 1..Len(tokens) : tokens[i].type = "Eof"})

\* C10: the token list scan_tokens returns holds exactly one Eof token, and it
\* is the last one; while the scanner runs, no Eof has been emitted.
C10_ExactlyOneEofLast ==
    /\ scanner.status = "done" =>
           /\ EofCount(scanner.tokens) = 1
           /\ scanner.tokens[Len(scanner.tokens)].type = "Eof"
    /\ scanner.status \in {"scanning", "panic"} => EofCount(scanner.tokens) = 0

\* C10: scan_tokens has returned several tokens before the Eof.
C10_Witness ==
    /\ scanner.status = "done"
    /\ Len(scanner.tokens) >= 3
    /\ scanner.tokens[1].type # "Eof"

\* The parser is about to read a DollarSign that opens a brace expansion with
\* no closing RightBrace: ${NAME, ${NAME:- or ${NAME:-default, then another token.
UnterminatedBraceAhead ==
    /\ parser.status = "parsing"
    /\ LET k == parser.current + 1
           tk == parser.tokens
           n == Len(tk)
           type(i) == IF i <= n THEN tk[i].type ELSE "Eof"
           j1 == k + 3
           j2 == IF type(j1) = "ColonDash" THEN j1 + 1 ELSE j1
           j3 == IF type(j1) = "ColonDash" /\ type(j2) = "Part" THEN j2 + 1 ELSE j2
       IN  /\ type(k) = "DollarSign"
           /\ type(k + 1) = "LeftBrace"
           /\ type(k + 2) = "Part"
           /\ type(j3) # "RightBrace"

\* C5: a brace expansion whose RightBrace is missing makes parse_tokens return
\* RequiredTokenNotFound with the expected set {RightBrace}, code 2; no panic.
C5_UnterminatedBraceIsRequiredTokenNotFound ==
    [][UnterminatedBraceAhead =>
           /\ parser'.status = "err"
           /\ parser'.error.kind = "RequiredTokenNotFound"
           /\ parser'.error.expected = {"RightBrace"}
           /\ ErrorKind_code(parser'.error) = 2]_vars

\* C5: parse_tokens has returned the error for ${NAME:-default at the end of
\* the input, in a command that follows an AndAnd.
C5_Witness ==
    /\ parser.status = "err"
    /\ parser.error.kind = "RequiredTokenNotFound"
    /\ parser.error.found.type = "Eof"
    /\ parser.error.preceding.type = "Part"
    /\ parser.current >= 6
    /\ parser.tokens[parser.current - 1].type = "ColonDash"

\* run has the commands of a line in hand: it interprets them, or has returned,
\* or the process has ended while it interpreted one.
RunInHand == "started" \in DOMAIN shell

C2_ParseErrorAbortsTheLine ==
    [][(shell.status = "record" /\ shell.error.some) =>
           /\ shell.started = <<>>
           /\ shell.results = <<>>
           /\ shell.error.value.kind \in {"UnexpectedToken", "RequiredTokenNotFound"}
           /\ PREVIOUS_EXIT_CODE' =
                  IF shell.error.value.kind = "UnexpectedToken" THEN 1 ELSE 2
           /\ UNCHANGED <<ALIASES, cwd, terminated>>]_vars

\* C2: the ParseError of a line whose first command is valid and whose second
\* command has a brace expansion that is not closed is about to be recorded.
C2_Witness ==
    /\ shell.status = "record"
    /\ shell.error.some
    /\ shell.error.value.kind = "RequiredTokenNotFound"
    /\ shell.line = "echo a && echo ${A\n"
    /\ shell.started = <<>>

\* The collection of the first command is about to end with no word in it: the
\* line is blank, or the loop of the outermost call ends with first_command empty.
EmptyFirstCommandEnds ==
    \/ parser.status = "new" /\ Parser_is_at_end(parser)
    \/ /\ parser.status = "parsing"
       /\ Len(parser.frames) = 1
       /\ Parser_is_at_end(parser)
       /\ top_frame(parser).first_command = <<>>

\* C3: when the first command's word list is empty at the end of the
\* collection, parse_tokens returns exactly one Command, with an empty keyword
\* and no args.
C3_EmptyFirstCommandIsOneNoOp ==
    [][EmptyFirstCommandEnds =>
           /\ parser'.status = "ok"
           /\ parser'.commands = <<Command("", <<>>)>>]_vars

CallIs(keywords) ==
    /\ call.status = "returned"
    /\ call.args # <<>>
    /\ call.args[1] \in keywords

\* C6: the alias builtin asked for a name answers 2 exactly when the registry
\* has no entry for the name, and otherwise answers 0 and prints the value.
C6_AliasQueryFindsWhatWasSet ==
    (CallIs({"alias"}) /\ Len(call.args) = 2 /\ ~Contains(call.args[2], "=")) =>
        LET name == call.args[2] IN
        /\ call.code = 2 <=> name \notin DOMAIN ALIASES
        /\ name \in DOMAIN ALIASES =>
               /\ call.code = 0
               /\ call.out = {name \o "='" \o ALIASES[name] \o "'"}

\* C7 as claimed: cd answers 2 when the target does not exist, 3 when it
\* exists and the change of directory fails, and 0 otherwise.
C7_CdCodesAsClaimed ==
    CallIs({"cd", "chdir"}) =>
        call.code = IF ~call.os.exists THEN 2 ELSE IF ~call.os.chdir_ok THEN 3 ELSE 0

\* C7 as amended: cd answers 1 and stays where it is when its arguments are
\* refused (more than one path, or an option); otherwise 2 when the target does
\* not exist, 3 when it exists and the change of directory fails, and 0 with
\* the process in the target; with no path the target is HOME, or "/" when
\* HOME is unset.
C7_CdCodes ==
    CallIs({"cd", "chdir"}) =>
        LET target == IF Len(call.args) >= 2 THEN call.args[2]
                      ELSE IF "HOME" \in DOMAIN env THEN env["HOME"] ELSE "/"
            refused == Len(call.args) > 2 \/ (Len(call.args) = 2 /\ CharAt(target, 1) = "-")
        IN  /\ call.code = IF refused THEN 1
                           ELSE IF ~call.os.exists THEN 2
                           ELSE IF ~call.os.chdir_ok THEN 3
                           ELSE 0
            /\ cwd = IF call.code = 0 THEN target ELSE call.cwd_before

\* C7: cd with no path has answered 0 and the process has entered HOME.
C7_Witness ==
    /\ CallIs({"cd"})
    /\ Len(call.args) = 1
    /\ "HOME" \in DOMAIN env
    /\ call.code = 0
    /\ cwd = env["HOME"]
    /\ call.cwd_before # env["HOME"]

\* C8: exit N through the dispatcher ends the process, with status N when N
\* is an integer and with status 0 otherwise.
C8_ExitEndsTheProcess ==
    (CallIs({"exit", "bye"}) /\ Len(call.args) <= 2) =>
        terminated = Exited(IF Len(call.args) = 2
                            THEN unwrap_or(parse_i32(call.args[2]), 0) ELSE 0)

\* C4: echo $NAME and echo ${NAME:-default}, scanned and then parsed, yield the
\* single argument that is the value of NAME when NAME is set, the empty string
\* for $NAME when it is unset, and the default for ${NAME:-default} when it is
\* unset, for every NAME.
C4_ExpansionYieldsValueOrDefault ==
    expand.status = "parsed" =>
        /\ parser.status = "ok"
        /\ parser.commands =
               <<Command("echo", <<IF expand.set THEN env[expand.name]
                                   ELSE IF expand.braces THEN "fallback" ELSE "">>)>>

\* SIGINT_EXIT_CODE of lib.rs
SIGINT_EXIT_CODE == 130

\* C9: the status interpret answers for an external command that fails is
\* fixed by the class of the failure and differs from one class to another:
\* among the failures the operating system can report, those that yield the
\* status answered are those of the class; an interrupted child yields 130.
C9_FailureStatusesFixedAndDistinct ==
    (RunInHand /\ shell.last.class \in FailureClasses) =>
        /\ shell.status # "panicked"
        /\ shell.last.class = "interrupted" => shell.last.status = SIGINT_EXIT_CODE
        /\ \A o \in ProcessOutcomes :
               o.class \in FailureClasses =>
                   (process_status(o) = Some(shell.last.status) <=>
                        o.class = shell.last.class)

\* C11: scan_tokens never panics: every read of the source is at an index
\* below its length, also when `~` is the last character of the input.
C11_ScanNeverPanics == scanner.status # "panic"

\* C12: a line of n >= 1 plain words parses to exactly one Command whose
\* keyword is the first word and whose args are the other words, unchanged and
\* in order.
C12_PlainWordsAreOneCommand ==
    (expand.status = "parsed" /\ "words" \in DOMAIN expand) =>
        /\ parser.status = "ok"
        /\ parser.commands = <<Command(expand.words[1], Tail(expand.words))>>

\* The loop of the innermost parse_tokens call is about to read a token of one
\* of the given types.
TokenAhead(types) ==
    /\ parser.status = "parsing"
    /\ Parser_peek(parser).type \in types

\* C13: when the parser meets a Pipe, OrOr, Semicolon, LeftBrace or RightBrace
\* outside an expansion, in any command of the line, the parsing of the whole
\* line ends with an empty command list and no ParseError.
C13_UnimplementedTokenEndsTheLine ==
    [][TokenAhead({"Pipe", "OrOr", "Semicolon", "LeftBrace", "RightBrace"}) =>
           /\ parser'.status = "ok"
           /\ parser'.commands = <<>>]_vars

\* C14: when the parser meets an And token at top level, parse_tokens returns
\* an empty command list, with no ParseError and no panic.
C14_AndEndsTheLine ==
    [][(TokenAhead({"And"}) /\ Len(parser.frames) = 1) =>
           /\ parser'.status = "ok"
           /\ parser'.commands = <<>>]_vars

\* The parser is about to read a DollarSign followed by a LeftBrace that no
\* Part follows.
BraceWithoutNameAhead ==
    /\ TokenAhead({"DollarSign"})
    /\ parser.tokens[parser.current + 2].type = "LeftBrace"
    /\ parser.tokens[parser.current + 3].type # "Part"

\* C15: DollarSign LeftBrace with no Part after it makes parse_tokens return
\* RequiredTokenNotFound with the expected set {Part}, code 2.
C15_BraceWithoutNameIsRequiredTokenNotFound ==
    [][BraceWithoutNameAhead =>
           /\ parser'.status = "err"
           /\ parser'.error.kind = "RequiredTokenNotFound"
           /\ parser'.error.expected = {"Part"}
           /\ ErrorKind_code(parser'.error) = 2]_vars

\* The word and the length of the word or expansion that starts at token i of
\* tk; the length is 0 when no word and no whole expansion starts there.
ItemAt(tk, i) ==
    LET type(k) == IF k <= Len(tk) THEN tk[k].type ELSE "Eof"
        value(k, default) == IF tk[k].lexeme \in DOMAIN env THEN env[tk[k].lexeme]
                             ELSE default
    IN  CASE type(i) = "Part" -> [len |-> 1, word |-> tk[i].lexeme]
          [] type(i) = "DollarSign" /\ type(i + 1) = "Part" ->
                 [len |-> 2, word |-> value(i + 1, "")]
          [] /\ type(i) = "DollarSign" /\ type(i + 1) = "LeftBrace"
             /\ type(i + 2) = "Part" /\ type(i + 3) = "RightBrace" ->
                 [len |-> 4, word |-> value(i + 2, "")]
          [] /\ type(i) = "DollarSign" /\ type(i + 1) = "LeftBrace"
             /\ type(i + 2) = "Part" /\ type(i + 3) = "ColonDash"
             /\ type(i + 4) = "Part" /\ type(i + 5) = "RightBrace" ->
                 [len |-> 6, word |-> value(i + 2, tk[i + 4].lexeme)]
          [] OTHER -> [len |-> 0, word |-> ""]

\* The word lists of c1, ..., cn when the tokens from i on, after the lists in
\* done and the words in words, spell a chain c1 && ... && cn of non-empty
\* sequences of words and expansions; <<>> when they do not.
RECURSIVE ChainWords(_, _, _, _)
ChainWords(tk, i, words, done) ==
    LET item == ItemAt(tk, i) IN
    CASE tk[i].type = "Eof" -> IF words = <<>> THEN <<>> ELSE Append(done, words)
      [] tk[i].type = "AndAnd" ->
             IF words = <<>> THEN <<>> ELSE ChainWords(tk, i + 1, <<>>, Append(done, words))
      [] OTHER ->
             IF item.len = 0 THEN <<>>
             ELSE ChainWords(tk, i + item.len, Append(words, item.word), done)

\* C16: for a line c1 && ... && cn of non-empty sequences of words and
\* expansions, parse_tokens returns exactly n Commands, the i-th built from the
\* words of ci only, in the order of the line.
C16_ChainYieldsItsCommandsInOrder ==
    (parser.status \in {"ok", "err", "panic"}
         /\ ChainWords(parser.tokens, 1, <<>>, <<>>) # <<>>) =>
        LET chain == ChainWords(parser.tokens, 1, <<>>, <<>>) IN
        /\ parser.status = "ok"
        /\ parser.commands =
               [i \in 1..Len(chain) |-> Command(Head(chain[i]), Tail(chain[i]))]

\* C16: parse_tokens has returned the three Commands of a chain of three, the
\* second of them with the default of an expansion among its args.
C16_Witness ==
    /\ parser.status = "ok"
    /\ Len(ChainWords(parser.tokens, 1, <<>>, <<>>)) = 3
    /\ Len(parser.commands) = 3
    /\ \E k \in 1..Len(parser.tokens) :
           /\ parser.tokens[k].type = "ColonDash"
           /\ parser.tokens[k + 1].lexeme \in
                  {parser.commands[2].args[a] : a \in 1..Len(parser.commands[2].args)}

\* The lexemes of the tokens before the Eof.
Lexemes(tokens) == [i \in 1..(Len(tokens) - 1) |-> tokens[i].lexeme]

\* Sources with a quoted section, and the Part tokens the quoted section makes
\* of them: the spaces between the quotes are in the token, the space after
\* the closing quote ends it.
QuotedSources ==
    {[source |-> "\"a b\" c", parts |-> <<"\"a b\"", "c">>],
     [source |-> "'a b' c", parts |-> <<"'a b'", "c">>],
     [source |-> "a\"b c\" d", parts |-> <<"a\"b c\"", "d">>],
     [source |-> "\" \"", parts |-> <<"\" \"">>],
     [source |-> "' '", parts |-> <<"' '">>]}

\* C17: from a quote character on, spaces are part of the same Part token
\* until the matching quote closes the section; after it a space ends the
\* token.
C17_QuotedSpacesStayInTheToken ==
    scanner.status = "done" =>
        \A q \in QuotedSources :
            scanner.source = q.source =>
                /\ Lexemes(scanner.tokens) = q.parts
                /\ \A i \in 1..Len(q.parts) : scanner.tokens[i].type = "Part"

\* The source is one word of letters, digits and `-`.
OneWord(source) ==
    /\ source # ""
    /\ \A i \in 1..Len(source) : is_alphanumeric(CharAt(source, i)) \/ CharAt(source, i) = "-"

\* C18: the Part token the scanner makes of a word has the replacement text of
\* the registry as its lexeme when the word is a key of the registry, and the
\* word itself otherwise.
C18_PartOfAliasHasTheReplacement ==
    (scanner.status = "done" /\ OneWord(scanner.source)) =>
        /\ Len(scanner.tokens) = 2
        /\ scanner.tokens[1].type = "Part"
        /\ scanner.tokens[1].lexeme =
               IF scanner.source \in DOMAIN ALIASES THEN ALIASES[scanner.source]
               ELSE scanner.source

\* The programs the first word of the line can name when an alias is applied
\* to it at most once: the word itself (after a `~`, HOME and the text that
\* follows), or the replacement of the one alias that is applied.
ResolvedAtMostOnce(line) ==
    LET home == IF "HOME" \in DOMAIN env THEN env["HOME"] ELSE ""
        alias(w) == IF w \in DOMAIN ALIASES THEN {ALIASES[w]} ELSE {}
    IN  CASE line \in {"a\n", "a b\n"} -> {"a"} \cup alias("a")
          [] line = "b\n" -> {"b"} \cup alias("b")
          [] line = "~a\n" ->
                 {home \o "a"} \cup alias(home \o "a") \cup {home \o r : r \in alias("a")}

AliasLookedUpOnce ==
    (expand.status = "interpreted" /\ expand.result.kind = "returned") =>
        expand.result.program \in ResolvedAtMostOnce(expand.line)

\* C19: an alias is applied to a word at most once, so that with a -> b and
\* b -> c the word a resolves to b and not to c; and scanning and interpreting
\* a line with an alias, cyclic or not, comes to its end.
C19_AliasAppliedOnceAndTerminates ==
    /\ []AliasLookedUpOnce
    /\ <>(expand.status = "interpreted")

\* The text with one layer of surrounding quote characters removed.
Unquoted(text) ==
    IF Len(text) >= 2 /\ CharAt(text, 1) \in Quotes /\ CharAt(text, Len(text)) = CharAt(text, 1)
    THEN SubSeq(text, 2, Len(text) - 1)
    ELSE text

\* C20: when the alias builtin sets an alias from name=value, the registry
\* holds for the name the text after the first `=` with one layer of
\* surrounding quote characters removed.
C20_AliasValueIsUnquoted ==
    (CallIs({"alias"}) /\ Len(call.args) = 2 /\ Contains(call.args[2], "=")) =>
        LET kv == split_once(call.args[2], "=") IN
        /\ call.code = 0
        /\ kv[1] \in DOMAIN ALIASES
        /\ ALIASES[kv[1]] = Unquoted(kv[2])

\* The call in hand is the alias builtin, reached directly or through
\* `builtin`, with exactly one extra argument, and the argument has a `=`.
AliasAssignment(c) ==
    LET a == effective_args(c.args) IN
    /\ Len(a) = 2
    /\ lang_from_str(a[1]) = "Alias"
    /\ Contains(a[2], "=")

\* The call in hand is the alias builtin with two or more extra arguments.
AliasTooManyArguments(c) ==
    LET a == effective_args(c.args) IN
    /\ Len(a) >= 3
    /\ lang_from_str(a[1]) = "Alias"

\* C21: the registry changes only in a call of the alias builtin with exactly
\* one extra argument that has a `=`, and then only at the key before the
\* `=`; every other call of a builtin leaves every mapping as it was, and
\* alias with two or more extra arguments answers 3.
C21_RegistryChangesOnlyOnAliasAssignment ==
    [][call'.status = "returned" =>
           /\ ~AliasAssignment(call') => ALIASES' = ALIASES
           /\ AliasAssignment(call') =>
                  LET key == split_once(effective_args(call'.args)[2], "=")[1] IN
                  /\ DOMAIN ALIASES' = DOMAIN ALIASES \cup {key}
                  /\ \A k \in DOMAIN ALIASES \ {key} : ALIASES'[k] = ALIASES[k]
           /\ AliasTooManyArguments(call') => call'.ok /\ call'.code = 3]_vars

\* C21: alias with an assignment and one more argument has answered 3 and has
\* left alone a registry that an earlier assignment had filled.
C21_Witness ==
    /\ call.status = "returned"
    /\ AliasTooManyArguments(call)
    /\ Contains(effective_args(call.args)[2], "=")
    /\ call.code = 3
    /\ ALIASES # NoAliases
    /\ ALIASES = call.aliases_before

\* C22: every `$?` of a line scans to a Part token, and never to a DollarSign,
\* and the lexeme of the token is the value the exit-code cell holds while the
\* line is scanned: the one recorded by the previous iteration of the loop.
C22_ExitCodeReferenceIsThePreviousCode ==
    scanner.status = "done" =>
        \A i \in 1..(Len(scanner.source) - 1) :
            SubSeq(scanner.source, i, i + 1) = "$?" =>
                /\ \E k \in 1..Len(scanner.tokens) :
                       scanner.tokens[k] =
                           Token("Part", to_string(PREVIOUS_EXIT_CODE), i + 1)
                /\ \A k \in 1..Len(scanner.tokens) :
                       ~(scanner.tokens[k].type = "DollarSign"
                             /\ scanner.tokens[k].location = i)

\* C23: while the startup script is run, no line is scanned, parsed or
\* interpreted after a line has produced a parse error: a line is in hand only
\* when no error of an earlier line was reported.
C23_StartupStopsAtFirstParseError ==
    (shell.status \in {"interpret", "record", "panicked", "exited"}) => shell.log = <<>>

\* The word characters of the source from place i on, up to the first
\* character that is none.
RECURSIVE WordFrom(_, _)
WordFrom(source, i) ==
    IF i <= Len(source) /\ is_part(CharAt(source, i))
    THEN CharAt(source, i) \o WordFrom(source, i + 1)
    ELSE ""

\* The loop of scan_tokens is about to read a `~`.
TildeAhead ==
    /\ scanner.status = "scanning"
    /\ Scanner_peek(scanner) = "~"

\* C24: on `~` the scanner adds exactly one Part token, whose lexeme is the
\* value of HOME followed by the word characters right after the `~`, and it
\* consumes the `~` and those characters only: the character after them is
\* left to be scanned.
C24_TildeTakesItsWordOnly ==
    [][TildeAhead =>
           LET word == WordFrom(scanner.source, scanner.current + 2)
               home == IF "HOME" \in DOMAIN env THEN env["HOME"] ELSE ""
               after == scanner.current + 1 + Len(word)
           IN  /\ scanner'.status = "scanning"
               /\ scanner'.current = after
               /\ scanner'.tokens =
                      Append(scanner.tokens, Token("Part", home \o word, after))]_vars

\* C25: when a signal ends the child that interpret waits for, interpret
\* returns without a panic, run returns to the loop of main, and the result of
\* the line is the interrupted status, 130.
C25_SignalledChildRecordsInterrupted ==
    (RunInHand /\ shell.last.class = "interrupted") =>
        /\ shell.status = "record"
        /\ shell.code = SIGINT_EXIT_CODE

\* The number of AndAnd tokens of the stream.
AndAndCount(tokens) == Cardinality({i \in 1..Len(tokens) : tokens[i].type = "AndAnd"})

\* The cursor is at the Eof token or before it, and the calls of parse_tokens
\* nested in the first one are no more than the AndAnd tokens of the stream.
CursorAndDepthBounded ==
    parser.status # "idle" =>
    /\ parser.current + 1 <= Len(parser.tokens)
    /\ \A i \in 1..parser.current : parser.tokens[i].type # "Eof"
    /\ Len(parser.frames) <= AndAndCount(parser.tokens) + 1

\* The cursor does not go back, and every turn of the collection loop moves it
\* forward.
CursorAdvances ==
    parser.status # "idle" =>
    /\ parser'.current >= parser.current
    /\ (parser.status = "parsing" /\ ~Parser_is_at_end(parser)) =>
           parser'.current > parser.current

\* C26: on every Eof-terminated token stream parse_tokens comes to its end;
\* the cursor never decreases, advances on every turn of the collection loop
\* and never passes the Eof token, and the depth of the nested calls is at
\* most the number of AndAnd tokens of the stream.
C26_ParseTokensTerminatesWithinTheStream ==
    /\ []CursorAndDepthBounded
    /\ [][CursorAdvances]_vars
    /\ <>(parser.status \in {"ok", "err", "panic"})

\* C26: the calls for a chain of three commands are nested two deep, the
\* stream has two AndAnd tokens, and the cursor has come to the Eof token.
C26_Witness ==
    /\ parser.status = "parsing"
    /\ Len(parser.frames) = 3
    /\ AndAndCount(parser.tokens) = 2
    /\ Parser_is_at_end(parser)
    /\ parser.current + 1 = Len(parser.tokens)

----------------------------------------------------------------------------
(* SpecTasks: the operations that take the lock of ALIASES or of            *)
(* PREVIOUS_EXIT_CODE, run by MaxTasks tasks at the same time, one step at  *)
(* a time. Both cells are tokio::sync::Mutex (lib.rs): a lock has one       *)
(* permit; lock().await takes the permit or joins the queue of waiters, and *)
(* the drop of the guard hands the permit to the first waiter or puts it    *)
(* back. shell keeps for every task the operation it runs (op) and the step *)
(* it is at (pc), the guards it holds (holds), and for every lock the       *)
(* permits and the waiters.                                                 *)

\* A variant of Builtin::alias that takes the lock again while it holds it.
lock_steps_relocking(op) ==
    LET cell == IF op \in {"alias", "alias_lookup"} THEN "ALIASES" ELSE "PREVIOUS_EXIT_CODE"
    IN  IF op = "alias"
        THEN <<[do |-> "lock", cell |-> cell], [do |-> "lock", cell |-> cell],
               [do |-> "use", cell |-> cell],
               [do |-> "unlock", cell |-> cell], [do |-> "unlock", cell |-> cell]>>
        ELSE <<[do |-> "lock", cell |-> cell], [do |-> "use", cell |-> cell],
               [do |-> "unlock", cell |-> cell]>>

\* The steps of an operation that touch a lock. Builtin::alias ("alias") and
\* the lookup of part_return_lexeme ("alias_lookup") lock ALIASES, use the
\* registry and drop the guard when they return; the `$?` arm of scan_token
\* ("exit_code_read") and the loop of main ("exit_code_write") lock
\* PREVIOUS_EXIT_CODE, read or write the cell and drop the guard at the end of
\* the statement.
lock_steps(op) ==
    LET cell == IF op \in {"alias", "alias_lookup"} THEN "ALIASES" ELSE "PREVIOUS_EXIT_CODE"
    IN  <<[do |-> "lock", cell |-> cell], [do |-> "use", cell |-> cell],
          [do |-> "unlock", cell |-> cell]>>

InitTasks ==
    /\ env = [n \in {} |-> ""]
    /\ ALIASES = NoAliases
    /\ PREVIOUS_EXIT_CODE = 0
    /\ scanner = Idle
    /\ parser = Idle
    /\ call = Idle
    /\ cwd = "/"
    /\ terminated = Running
    /\ shell = [status |-> "tasks",
                op |-> [t \in 1..MaxTasks |-> [name |-> "none"]],
                pc |-> [t \in 1..MaxTasks |-> 0],
                holds |-> [t \in 1..MaxTasks |-> {}],
                permits |-> [c \in {"ALIASES", "PREVIOUS_EXIT_CODE"} |-> 1],
                waiters |-> [c \in {"ALIASES", "PREVIOUS_EXIT_CODE"} |-> <<>>]]
    /\ expand = Idle

\* Task t, which runs no operation, calls one: the alias builtin to set or to
\* list, the scanner's lookup of a word, the read of `$?`, or the write of the
\* code of a line.
TaskCall(t) ==
    /\ shell.op[t].name = "none"
    /\ \E o \in {[name |-> "alias", args |-> <<"alias", "ll=ls">>],
                  [name |-> "alias", args |-> <<"alias">>],
                  [name |-> "alias_lookup"],
                  [name |-> "exit_code_read"],
                  [name |-> "exit_code_write", code |-> SIGINT_EXIT_CODE],
                  [name |-> "exit_code_write", code |-> 0]} :
          shell' = [shell EXCEPT !.op[t] = o, !.pc[t] = 1]
    /\ UNCHANGED <<env, ALIASES, PREVIOUS_EXIT_CODE, scanner, parser, call, cwd,
                   terminated, expand>>

\* Task t takes the next step of its operation, or returns from it after the
\* last one. A task in a queue of waiters takes no step until the permit is
\* handed to it.
TaskStep(t) ==
    LET o == shell.op[t]
        steps == lock_steps(o.name)
        step == steps[shell.pc[t]]
        c == step.cell
    IN  /\ o.name # "none"
        /\ \A w \in DOMAIN shell.waiters : \A i \in 1..Len(shell.waiters[w]) :
               shell.waiters[w][i] # t
        /\ \/ /\ shell.pc[t] > Len(steps)
              /\ shell' = [shell EXCEPT !.op[t] = [name |-> "none"], !.pc[t] = 0]
              /\ UNCHANGED <<ALIASES, PREVIOUS_EXIT_CODE>>
           \/ /\ shell.pc[t] <= Len(steps)
              /\ step.do = "lock"
              /\ shell' = IF shell.permits[c] > 0
                          THEN [shell EXCEPT !.permits[c] = @ - 1,
                                             !.holds[t] = @ \cup {c},
                                             !.pc[t] = @ + 1]
                          ELSE [shell EXCEPT !.waiters[c] = Append(@, t)]
              /\ UNCHANGED <<ALIASES, PREVIOUS_EXIT_CODE>>
           \/ /\ shell.pc[t] <= Len(steps)
              /\ step.do = "use"
              /\ shell' = [shell EXCEPT !.pc[t] = @ + 1]
              /\ ALIASES' = IF o.name = "alias"
                            THEN lang_alias(o.args, ALIASES, cwd).aliases
                            ELSE ALIASES
              /\ PREVIOUS_EXIT_CODE' = IF o.name = "exit_code_write" THEN o.code
                                       ELSE PREVIOUS_EXIT_CODE
           \/ /\ shell.pc[t] <= Len(steps)
              /\ step.do = "unlock"
              /\ shell' = IF shell.waiters[c] = <<>>
                          THEN [shell EXCEPT !.permits[c] = @ + 1,
                                             !.holds[t] = @ \ {c},
                                             !.pc[t] = @ + 1]
                          ELSE LET w == Head(shell.waiters[c])
                               IN  [shell EXCEPT !.waiters[c] = Tail(@),
                                                 !.holds[t] = @ \ {c},
                                                 !.holds[w] = @ \cup {c},
                                                 !.pc[t] = @ + 1,
                                                 !.pc[w] = @ + 1]
              /\ UNCHANGED <<ALIASES, PREVIOUS_EXIT_CODE>>
        /\ UNCHANGED <<env, scanner, parser, call, cwd, terminated, expand>>

NextTasks == \E t \in 1..MaxTasks : TaskCall(t) \/ TaskStep(t)

\* The scheduler polls every task that can take a step.
SpecTasks ==
    InitTasks /\ [][NextTasks]_vars /\ \A t \in 1..MaxTasks : WF_vars(TaskStep(t))

\* Task t waits for the lock of the cell.
Waiting(t, cell) ==
    \E i \in 1..Len(shell.waiters[cell]) : shell.waiters[cell][i] = t

\* At most one task holds the lock of a cell.
MutualExclusion ==
    \A c \in {"ALIASES", "PREVIOUS_EXIT_CODE"} :
        Cardinality({t \in 1..MaxTasks : c \in shell.holds[t]}) <= 1

\* A task that is about to request a lock, or waits for one, holds none.
NoRequestWhileHolding ==
    \A t \in 1..MaxTasks :
        LET steps == lock_steps(shell.op[t].name)
            requesting == /\ shell.op[t].name # "none"
                          /\ shell.pc[t] <= Len(steps)
                          /\ steps[shell.pc[t]].do = "lock"
        IN  requesting => shell.holds[t] = {}

\* A task whose operation has returned holds no lock.
ReleasedAtReturn ==
    \A t \in 1..MaxTasks : shell.op[t].name = "none" => shell.holds[t] = {}

\* C27: with several tasks running at the same time, at most one holds the
\* lock of ALIASES (and of PREVIOUS_EXIT_CODE), no task requests one of the
\* two locks while it holds one, every lock is released before the operation
\* that took it returns, and every task that waits for a lock gets it.
C27_LocksAreExclusiveAndGranted ==
    /\ [](MutualExclusion /\ NoRequestWhileHolding /\ ReleasedAtReturn)
    /\ \A t \in 1..MaxTasks : \A c \in {"ALIASES", "PREVIOUS_EXIT_CODE"} :
           Waiting(t, c) ~> (c \in shell.holds[t])

\* C27: one task holds the lock of ALIASES in the alias builtin, after an
\* alias was set, and another waits for it.
C27_Witness ==
    \E t, u \in 1..MaxTasks :
        /\ "ALIASES" \in shell.holds[t]
        /\ shell.op[t].name = "alias"
        /\ Waiting(u, "ALIASES")
        /\ ALIASES # NoAliases

=============================================================================
